---- MODULE Spec2Model ----
(***************************************************************************)
(* Model of the fishtest test tracker: the scheduled script                *)
(* .github/scripts/fetch_and_process.js (load history, fetch, process,     *)
(* update history, save), the workflow that runs it, and the page that     *)
(* displays the two files the script writes.                               *)
(*                                                                         *)
(* JavaScript values that the script coerces are modelled as records       *)
(* [t, n, s]: t is the kind, n the numeric value of a number, s the        *)
(* characters of a string.  Numbers are integers (llr is in whole units).  *)
(***************************************************************************)
EXTENDS Integers, Sequences, FiniteSets, TLC

\* ------------------------------------------------------------------ bounds

\* Most records in one raw mapping handed to processRawData on its own.
MaxRaw == 3
\* Number of script runs (cycles) explored from the initial files.
MaxCycles == 2
\* Number of workflow runs that can be triggered.
MaxRuns == 2
\* Number of times the page's timer fires.
MaxTicks == 2

\* ------------------------------------------------------- JavaScript values

Undefined == [t |-> "undefined", n |-> 0, s |-> <<>>]
Null == [t |-> "null", n |-> 0, s |-> <<>>]
NaN == [t |-> "NaN", n |-> 0, s |-> <<>>]
Num(k) == [t |-> "number", n |-> k, s |-> <<>>]
Str(cs) == [t |-> "string", n |-> 0, s |-> cs]

\* The id of a record with no _id property (JavaScript undefined), and the
\* property key JavaScript derives from it when it indexes an object.
UndefinedId == "<undefined>"
ToPropertyKey(id) == IF id = UndefinedId THEN "undefined" ELSE id

\* The display default of username / branch.
NA == "N/A"

Digits == {"0", "1", "2", "3", "4", "5", "6", "7", "8", "9"}
DigitVal(c) ==
    CASE c = "0" -> 0 [] c = "1" -> 1 [] c = "2" -> 2 [] c = "3" -> 3
      [] c = "4" -> 4 [] c = "5" -> 5 [] c = "6" -> 6 [] c = "7" -> 7
      [] c = "8" -> 8 [] c = "9" -> 9

\* Length of the longest prefix of cs made of digits.
RECURSIVE DigitPrefixLen(_)
DigitPrefixLen(cs) ==
    IF cs = <<>> \/ Head(cs) \notin Digits THEN 0
    ELSE 1 + DigitPrefixLen(Tail(cs))

\* Value of a non-empty sequence of digits.
RECURSIVE DigitsValue(_)
DigitsValue(cs) ==
    IF cs = <<>> THEN 0
    ELSE 10 * DigitsValue(SubSeq(cs, 1, Len(cs) - 1)) + DigitVal(cs[Len(cs)])

\* The number a string starts with: an optional sign, then digits; NaN when
\* there is no digit.  Trailing characters are ignored.
StringToNumber(cs) ==
    LET neg == cs /= <<>> /\ Head(cs) = "-"
        body == IF neg THEN Tail(cs) ELSE cs
        k == DigitPrefixLen(body)
    IN  IF k = 0 THEN NaN
        ELSE Num((IF neg THEN -1 ELSE 1) * DigitsValue(SubSeq(body, 1, k)))

\* parseInt(v): v is converted to a string first; undefined and null give
\* "undefined" and "null", which start with no digit.
parseInt(v) ==
    CASE v.t = "number" -> v
      [] v.t = "string" -> StringToNumber(v.s)
      [] OTHER -> NaN

\* parseFloat(v): as parseInt on the values of the model (no fraction, no
\* exponent in its strings).
parseFloat(v) ==
    CASE v.t = "number" -> v
      [] v.t = "string" -> StringToNumber(v.s)
      [] OTHER -> NaN

\* x || 0 on a number: NaN and 0 are falsy.
OrZero(v) == IF v.t = "number" THEN v.n ELSE 0

\* a !== b: NaN differs from everything, itself included.
StrictNotEqual(a, b) == a = NaN \/ b = NaN \/ a /= b

\* ------------------------------------------------------------ raw records

\* A record of the remote API's mapping.  hasId, hasArgs, hasSprt, hasResults
\* say whether _id, args, args.sprt and results are present; a field that is
\* absent inside a present object is Undefined.
RawRecord(id, hasArgs, hasSprt, llr, elo0, hasResults, wins, losses, draws, workers, username, new_tag) ==
    [_id |-> id, hasArgs |-> hasArgs, hasSprt |-> hasSprt, llr |-> llr,
     elo0 |-> elo0, hasResults |-> hasResults, wins |-> wins,
     losses |-> losses, draws |-> draws, workers |-> workers,
     username |-> username, new_tag |-> new_tag]

\* args.sprt?.X with args = test.args || {}
SprtField(test, v) == IF test.hasArgs /\ test.hasSprt THEN v ELSE Undefined
\* test.results?.X
ResultsField(test, v) == IF test.hasResults THEN v ELSE Undefined
\* args.X ?? 'N/A' (a string field; UndefinedId stands for an absent one)
ArgsStringOrNA(test, v) == IF test.hasArgs /\ v /= UndefinedId THEN v ELSE NA

\* ---------------------------------------------------------- processRawData

\* const llr = args.sprt?.llr ?? null
RawLlr(test) ==
    LET v == SprtField(test, test.llr)
    IN  IF v = Undefined \/ v = Null THEN Null ELSE v

\* llr !== null ? parseFloat(llr) : null
SummaryLlr(test) == IF RawLlr(test) /= Null THEN parseFloat(RawLlr(test)) ELSE Null

\* sprtElo0: parseFloat of args.sprt.elo0 when it is defined, null when the
\* result is NaN
SummaryElo0(test) ==
    LET v == SprtField(test, test.elo0)
    IN  IF v /= Undefined
        THEN (IF parseFloat(v) = NaN THEN Null ELSE parseFloat(v))
        ELSE Null

\* The object pushed for one record.
Summary(test) ==
    LET wins == OrZero(parseInt(ResultsField(test, test.wins)))
        losses == OrZero(parseInt(ResultsField(test, test.losses)))
        draws == OrZero(parseInt(ResultsField(test, test.draws)))
    IN  [id |-> test._id,
         username |-> ArgsStringOrNA(test, test.username),
         branch |-> ArgsStringOrNA(test, test.new_tag),
         llr |-> SummaryLlr(test),
         wml |-> wins - losses,
         wins |-> wins,
         losses |-> losses,
         draws |-> draws,
         totalGames |-> wins + losses + draws,
         workers |-> OrZero(parseInt(test.workers)),
         sprtElo0 |-> SummaryElo0(test)]

\* The list before the sort, in the iteration order of the raw mapping.
ProcessedTests(rawData) == [i \in 1..Len(rawData) |-> Summary(rawData[i])]

\* The sort's comparator, as the sign the sort sees: a NaN result (a NaN llr
\* on either side) counts as 0.
CompareFn(a, b) ==
    CASE a.llr = Null /\ b.llr = Null -> 0
      [] a.llr = Null -> 1
      [] b.llr = Null -> -1
      [] a.llr = NaN \/ b.llr = NaN -> 0
      [] b.llr.n > a.llr.n -> 1
      [] b.llr.n < a.llr.n -> -1
      [] OTHER -> 0

\* Whether CompareFn is a consistent comparator for the elements of list
\* (ECMAScript: otherwise the sort order is implementation-defined).
ConsistentComparator(list) ==
    LET E == {list[i] : i \in 1..Len(list)}
    IN  \A a, b, c \in E :
          /\ CompareFn(a, a) = 0
          /\ (CompareFn(a, b) < 0) = (CompareFn(b, a) > 0)
          /\ (CompareFn(a, b) = 0) = (CompareFn(b, a) = 0)
          /\ (CompareFn(a, b) = 0 /\ CompareFn(b, c) = 0) => CompareFn(a, c) = 0
          /\ (CompareFn(a, b) < 0 /\ CompareFn(b, c) < 0) => CompareFn(a, c) < 0
          /\ (CompareFn(a, b) > 0 /\ CompareFn(b, c) > 0) => CompareFn(a, c) > 0

\* x inserted into the sorted list after every element that does not sort
\* after it (a stable insertion).
RECURSIVE InsertSorted(_, _)
InsertSorted(sorted, x) ==
    IF sorted = <<>> THEN <<x>>
    ELSE IF CompareFn(sorted[Len(sorted)], x) <= 0 THEN Append(sorted, x)
    ELSE Append(InsertSorted(SubSeq(sorted, 1, Len(sorted) - 1), x), sorted[Len(sorted)])

RECURSIVE StableSort(_)
StableSort(list) ==
    IF list = <<>> THEN <<>>
    ELSE InsertSorted(StableSort(SubSeq(list, 1, Len(list) - 1)), list[Len(list)])

\* The rearrangements of list.
Rearrangements(list) ==
    {[i \in 1..Len(list) |-> list[p[i]]] : p \in Permutations(1..Len(list))}

\* Array.prototype.sort with CompareFn: the stable sort when the comparator is
\* consistent, any rearrangement otherwise.
SortResults(list) ==
    IF ConsistentComparator(list) THEN {StableSort(list)} ELSE Rearrangements(list)

\* The lists processRawData can return for rawData (a sequence of records in
\* the mapping's iteration order).
processRawData(rawData) == SortResults(ProcessedTests(rawData))

\* ------------------------------------------------------ updateHistoricalData

\* Limit of history points per test.
MAX_HISTORY_POINTS == 864

\* The store with no entry.
EmptyStore == [k \in {} |-> <<>>]

\* new Set(latestProcessedTests.map(t => t.id))
ActiveTestIds(tests) == {tests[i].id : i \in 1..Len(tests)}

\* A point that records no wins-minus-losses.
NewPointZeroWml(test, time) == [time |-> time, wml |-> 0, llr |-> test.llr]

\* The point built for one summary at the time read from the clock.
NewPoint(test, time) == [time |-> time, wml |-> test.wml, llr |-> test.llr]

\* A change detection that looks at wml only.
PointDiffersWmlOnly(testHistory, newPoint) ==
    \/ testHistory = <<>>
    \/ testHistory[Len(testHistory)].wml /= newPoint.wml

\* Whether the point is pushed: no last entry, or wml or llr differ from it.
PointDiffers(testHistory, newPoint) ==
    \/ testHistory = <<>>
    \/ testHistory[Len(testHistory)].wml /= newPoint.wml
    \/ StrictNotEqual(testHistory[Len(testHistory)].llr, newPoint.llr)

\* A push with no limit.
PushUnlimited(testHistory, newPoint) == Append(testHistory, newPoint)

\* A limited push that puts the new point first and drops the last one.
PushLimitedAtFront(testHistory, newPoint) ==
    LET pushed == <<newPoint>> \o testHistory
    IN  IF Len(pushed) > MAX_HISTORY_POINTS
        THEN SubSeq(pushed, 1, MAX_HISTORY_POINTS) ELSE pushed

\* push, then shift when the length exceeds the limit.
PushLimited(testHistory, newPoint) ==
    LET pushed == Append(testHistory, newPoint)
    IN  IF Len(pushed) > MAX_HISTORY_POINTS THEN Tail(pushed) ELSE pushed

\* One iteration of the forEach: the store and the changed flag after it.
AddPoint(st, test, time) ==
    LET key == ToPropertyKey(test.id)
        isNew == key \notin DOMAIN st.history
        testHistory == IF isNew THEN <<>> ELSE st.history[key]
        newPoint == NewPoint(test, time)
        push == PointDiffers(testHistory, newPoint)
        after == IF push THEN PushLimited(testHistory, newPoint) ELSE testHistory
    IN  [history |-> [k \in DOMAIN st.history \cup {key} |->
                         IF k = key THEN after ELSE st.history[k]],
         changed |-> st.changed \/ isNew \/ push]

\* The forEach over the first n summaries; times[i] is the clock at summary i.
RECURSIVE AddPoints(_, _, _, _)
AddPoints(st, tests, times, n) ==
    IF n = 0 THEN st
    ELSE AddPoint(AddPoints(st, tests, times, n - 1), tests[n], times[n])

\* A cleanup that deletes nothing.
CleanupKeepsEnded(st, active) == st

\* The cleanup loop: entries whose key is not an active id are deleted.
Cleanup(st, active) ==
    LET keep == {k \in DOMAIN st.history : k \in active}
    IN  [history |-> [k \in keep |-> st.history[k]],
         changed |-> st.changed \/ keep /= DOMAIN st.history]

\* updateHistoricalData: { updatedHistory, historyChanged } as [history, changed].
updateHistoricalData(currentHistory, latestProcessedTests, times) ==
    Cleanup(AddPoints([history |-> currentHistory, changed |-> FALSE],
                      latestProcessedTests, times, Len(latestProcessedTests)),
            ActiveTestIds(latestProcessedTests))

\* ------------------------------------------------------------------ files

\* JSON.stringify of a number-or-null value: NaN is written as null.
StringifyNumber(v) == IF v = NaN THEN Null ELSE v

\* The JSON text of a store, as the value it denotes.
StringifyHistory(history) ==
    [k \in DOMAIN history |->
        [i \in 1..Len(history[k]) |->
            [time |-> history[k][i].time, wml |-> history[k][i].wml,
             llr |-> StringifyNumber(history[k][i].llr)]]]

\* The JSON text of a summary list, as the value it denotes.
StringifyTests(tests) ==
    [i \in 1..Len(tests) |->
        [tests[i] EXCEPT !.llr = StringifyNumber(tests[i].llr)]]

\* A file: missing, holding JSON, holding text that does not parse, or
\* failing to be read.
MissingFile == [state |-> "missing", data |-> <<>>]
CorruptFile == [state |-> "corrupt", data |-> <<>>]
UnreadableFile == [state |-> "unreadable", data |-> <<>>]
JsonFile(data) == [state |-> "json", data |-> data]

\* A loadJson that returns the default on every error.
loadJsonDefaultOnAnyError(file, defaultValue) ==
    IF file.state = "json" THEN [threw |-> FALSE, value |-> file.data]
    ELSE [threw |-> FALSE, value |-> defaultValue]

\* loadJson(filePath, defaultValue): the value returned, or a throw.
loadJson(file, defaultValue) ==
    CASE file.state = "json" -> [threw |-> FALSE, value |-> file.data]
      [] file.state = "missing" -> [threw |-> FALSE, value |-> defaultValue]
      [] OTHER -> [threw |-> TRUE, value |-> defaultValue]

\* ------------------------------------------------------------------ inputs

\* The remote API keys its mapping by test id, so no two records of a mapping
\* carry the same _id; a record may lack its _id like any other field.

\* A record that has only its _id: no args, no results, no workers.
BareRecord(id) ==
    RawRecord(id, FALSE, FALSE, Undefined, Undefined, FALSE, Undefined,
              Undefined, Undefined, Undefined, UndefinedId, UndefinedId)

\* A record with every field, numbers partly as strings: wml 1, llr 1.
FullRecord(id) ==
    RawRecord(id, TRUE, TRUE, Num(1), Str(<<"-", "1">>), TRUE, Str(<<"2">>),
              Num(1), Num(0), Num(3), "user", "branch")

\* A record whose llr is a string with no digit.
BadLlrRecord(id) ==
    RawRecord(id, TRUE, TRUE, Str(<<"x">>), Undefined, TRUE, Undefined,
              Undefined, Undefined, Undefined, "user", UndefinedId)

\* The raw mappings a fetch delivers in a cycle: at most one record for test
\* a, then a record for test b or a record with no _id or neither.
FetchedMappings ==
    {ra \o rb :
        ra \in {<<>>, <<BareRecord("a")>>, <<FullRecord("a")>>, <<BadLlrRecord("a")>>},
        rb \in {<<>>, <<FullRecord("b")>>, <<BareRecord(UndefinedId)>>}}

\* n stored points, one per second, alternating wml, llr null.
StoredPoints(n) == [i \in 1..n |-> [time |-> i, wml |-> i % 2, llr |-> Null]]

\* The history files a first cycle can find: none, one that does not parse,
\* one that cannot be read, an empty store, one with test a at the limit, and
\* one with test a one point below it and an ended test c.
InitialHistoryFiles ==
    {MissingFile, CorruptFile, UnreadableFile, JsonFile(EmptyStore),
     JsonFile(("a" :> StoredPoints(MAX_HISTORY_POINTS)) @@ ("b" :> StoredPoints(1))),
     JsonFile(("a" :> StoredPoints(MAX_HISTORY_POINTS - 1)) @@ ("c" :> StoredPoints(2)))}

\* A record with args.sprt.llr = v and nothing else.
LlrRecord(id, v) ==
    RawRecord(id, TRUE, TRUE, v, Undefined, FALSE, Undefined, Undefined,
              Undefined, Undefined, UndefinedId, UndefinedId)

\* A record with args but no args.sprt, and results that are not numbers.
NoSprtRecord(id) ==
    RawRecord(id, TRUE, FALSE, Num(1), Num(1), TRUE, Str(<<"x">>), Null,
              Str(<<"-">>), Str(<<"x", "1">>), "user", "branch")

\* A record whose elo0 does not parse, with numeric strings elsewhere.
BadElo0Record(id) ==
    RawRecord(id, TRUE, TRUE, Str(<<"2">>), Str(<<"x">>), TRUE, Str(<<"1", "x">>),
              Str(<<"-", "2">>), Num(1), Str(<<"3">>), UndefinedId, "branch")

\* The values of args.sprt.llr tried on their own.
LlrValues ==
    {Undefined, Null, Num(1), Num(2), Num(-1), Str(<<"2">>), Str(<<"x">>),
     Str(<<"1", "x">>)}

\* The records processRawData is tried on, for one id.
ProcessRecords(id) ==
    {LlrRecord(id, v) : v \in LlrValues}
      \cup {BareRecord(id), FullRecord(id), NoSprtRecord(id), BadElo0Record(id),
            BareRecord(UndefinedId)}

\* The raw mappings processRawData is tried on: up to longest records, the
\* record at position i under the id ToString(i).
RECURSIVE ProcessMappingsOfLen(_)
ProcessMappingsOfLen(n) ==
    IF n = 0 THEN {<<>>}
    ELSE {Append(m, r) : m \in ProcessMappingsOfLen(n - 1), r \in ProcessRecords(ToString(n))}

ProcessMappings(longest) == UNION {ProcessMappingsOfLen(n) : n \in 0..longest}

\* ------------------------------------------------------- page: the values

\* Strings the page searches in are sequences of characters.
LowerChar(c) == CASE c = "A" -> "a" [] c = "L" -> "l" [] c = "B" -> "b" [] OTHER -> c

\* String.prototype.toLowerCase
ToLowerCase(cs) == [i \in 1..Len(cs) |-> LowerChar(cs[i])]

RECURSIVE TrimStart(_)
TrimStart(cs) == IF cs /= <<>> /\ Head(cs) = " " THEN TrimStart(Tail(cs)) ELSE cs

RECURSIVE TrimEnd(_)
TrimEnd(cs) ==
    IF cs /= <<>> /\ cs[Len(cs)] = " " THEN TrimEnd(SubSeq(cs, 1, Len(cs) - 1)) ELSE cs

\* String.prototype.trim
Trim(cs) == TrimEnd(TrimStart(cs))

\* String.prototype.includes
Includes(cs, part) ==
    \E i \in 0..(Len(cs) - Len(part)) : SubSeq(cs, i + 1, i + Len(part)) = part

\* A summary as latest_data.json delivers it: the script's summary with JSON's
\* numbers, its strings as characters, and no id property when the script's
\* summary had an undefined id.
PageSummary(id, username, branch, llr, wins, losses) ==
    [id |-> id, username |-> Str(username), branch |-> Str(branch),
     llr |-> StringifyNumber(llr), wml |-> wins - losses, wins |-> wins,
     losses |-> losses, draws |-> 0, totalGames |-> wins + losses,
     workers |-> 1, sprtElo0 |-> Null]

TestA == PageSummary(Str(<<"a", "1">>), <<"A", "l">>, <<"b", "x">>, Num(1), 2, 1)
TestB == PageSummary(Str(<<"b", "2">>), <<"b", "o">>, <<"a", " ", "c">>, Null, 1, 2)
TestNoId == PageSummary(Undefined, <<"z">>, <<"N">>, Null, 0, 0)

\* The lists latest_data.json can hold.
LatestLists == {<<>>, <<TestA, TestB>>, <<TestA, TestNoId>>}

\* The history of a listed test as the script stored it: a first point with
\* no llr yet, then the point of the summary.
PagePoints(test) ==
    <<NewPoint([test EXCEPT !.llr = Null, !.wml = 0], 1), NewPoint(test, 2)>>

\* The stores historical_data.json can hold: none, an entry for the first
\* test only, and entries for both tests of the list.
HistoryStores ==
    {EmptyStore,
     StringifyHistory([k \in {TestA.id.s} |-> PagePoints(TestA)]),
     StringifyHistory([k \in {TestA.id.s, TestB.id.s} |->
                          IF k = TestA.id.s THEN PagePoints(TestA) ELSE PagePoints(TestB)])}

\* The outcomes of the two fetches: a response that is ok and parses, a 404,
\* and any other failure (network error, other status, text that is not JSON).
FetchOutcomes == {"ok", "404", "failed"}

\* What the user can type into the filter input.
FilterTexts ==
    {<<>>, <<"A", "L">>, <<"l", " ">>, <<" ">>, <<"2">>, <<"q">>, <<"a", " ", "c">>}

Metrics == {"llr", "score"}

\* ------------------------------------------------------ page: the functions

\* The body of the table: the markup of the document before any rendering,
\* nothing, a message row, or one row per rendered summary; partial says
\* that a last row was inserted whose cells were never filled.
TableBody(kind, rows, partial) == [kind |-> kind, rows |-> rows, partial |-> partial]

\* The status line: the document's text, 'Last update: <age of stamp>' as
\* formatted at the tick `at`, 'N/A (or still loading)', or 'Error loading'.
StatusLine(kind, stamp, at) == [kind |-> kind, stamp |-> stamp, at |-> at]

\* The globals of the page and what the document shows, before the load ends.
InitialPage ==
    [phase |-> "loading", event |-> "none", loadFailed |-> FALSE, fetches |-> 0,
     timer |-> FALSE, ticks |-> 0,
     allTestsData |-> <<>>, historicalData |-> EmptyStore, currentChart |-> Null,
     currentTrackingTestId |-> Null, currentTrackingBranchName |-> Null,
     currentVisibleMetric |-> "llr", filterValue |-> <<>>,
     testsTableBody |-> TableBody("initial", <<>>, FALSE),
     lastUpdateTime |-> StatusLine("initial", 0, 0),
     testEndedMessage |-> "none"]

\* obj.name: undefined when the object has no such property.
Property(obj, name) == IF name \in DOMAIN obj THEN obj[name] ELSE Undefined

Max(S) == CHOOSE m \in S : \A n \in S : n <= m

\* getLatestUpdateTime(history): the greatest time of a last entry, or null.
getLatestUpdateTime(history) ==
    LET latestTime ==
            Max({0} \cup {history[k][Len(history[k])].time :
                             k \in {j \in DOMAIN history : Len(history[j]) > 0}})
    IN  IF latestTime > 0 THEN Num(latestTime) ELSE Null

\* displayLastUpdateTime()
displayLastUpdateTime(p) ==
    LET latestTimestamp == getLatestUpdateTime(p.historicalData)
    IN  [p EXCEPT !.lastUpdateTime =
            IF latestTimestamp /= Null
            THEN StatusLine("ago", latestTimestamp.n, p.ticks)
            ELSE StatusLine("na", 0, 0)]

\* The position of the first summary whose row cannot be built because
\* test.id.substring is called on undefined; 0 when there is none.
FirstThrow(tests) ==
    LET bad == {i \in 1..Len(tests) : tests[i].id = Undefined}
    IN  IF bad = {} THEN 0 ELSE CHOOSE i \in bad : \A j \in bad : i <= j

\* renderTable(testsToRender): the new body of the table, and whether the
\* call threw.
renderTable(p, testsToRender) ==
    LET cleared == TableBody("empty", <<>>, FALSE)
        stop == FirstThrow(testsToRender)
    IN  IF Len(testsToRender) = 0 /\ Len(p.allTestsData) > 0 /\ Trim(p.filterValue) /= <<>>
        THEN [body |-> TableBody("noMatch", <<>>, FALSE), threw |-> FALSE]
        ELSE IF Len(testsToRender) = 0 /\ Len(p.allTestsData) = 0
        THEN [body |-> IF cleared.kind /= "error"
                       THEN TableBody("noData", <<>>, FALSE) ELSE cleared,
              threw |-> FALSE]
        ELSE IF stop = 0
        THEN [body |-> TableBody("rows", testsToRender, FALSE), threw |-> FALSE]
        ELSE [body |-> TableBody("rows", SubSeq(testsToRender, 1, stop - 1), TRUE),
              threw |-> TRUE]

\* The predicate of the filter in filterAndRenderTable, for a summary with
\* an id.
FilterMatches(test, filterText) ==
    \/ Includes(ToLowerCase(test.username.s), filterText)
    \/ Includes(ToLowerCase(test.branch.s), filterText)
    \/ Includes(ToLowerCase(test.id.s), filterText)

\* Whether the predicate throws on a summary: its username and branch do not
\* match and test.id.toLowerCase is called on undefined.
FilterThrows(test, filterText) ==
    /\ ~Includes(ToLowerCase(test.username.s), filterText)
    /\ ~Includes(ToLowerCase(test.branch.s), filterText)
    /\ test.id = Undefined

\* filterAndRenderTable(): the new body of the table, and whether it threw.
filterAndRenderTable(p) ==
    LET filterText == Trim(ToLowerCase(p.filterValue))
        all == p.allTestsData
        keep(test) == FilterMatches(test, filterText)
    IN  IF filterText = <<>> THEN renderTable(p, all)
        ELSE IF \E i \in 1..Len(all) : FilterThrows(all[i], filterText)
        THEN [body |-> p.testsTableBody, threw |-> TRUE]
        ELSE renderTable(p, SelectSeq(all, keep))

\* new Chart(ctx, ...) in initializeChart: no data, the series hidden and the
\* axis set as the visible metric says.
NewChart(metric) ==
    [scoreData |-> <<>>, llrData |-> <<>>,
     scoreHidden |-> metric /= "score", llrHidden |-> metric /= "llr",
     yMin |-> IF metric = "llr" THEN Num(-3) ELSE Undefined,
     yMax |-> IF metric = "llr" THEN Num(3) ELSE Undefined,
     beginAtZero |-> metric /= "llr"]

\* A toggle that leaves the axis as it is.
toggleChartMetricKeepsAxis(p, metricToShow) ==
    IF p.currentChart = Null THEN p
    ELSE [p EXCEPT !.currentVisibleMetric = metricToShow,
                   !.currentChart.scoreHidden = (metricToShow = "llr"),
                   !.currentChart.llrHidden = ~(metricToShow = "llr")]

\* toggleChartMetric(metricToShow)
toggleChartMetric(p, metricToShow) ==
    LET isLLR == metricToShow = "llr"
    IN  IF p.currentChart = Null THEN p
        ELSE [p EXCEPT !.currentVisibleMetric = metricToShow,
                       !.currentChart.scoreHidden = isLLR,
                       !.currentChart.llrHidden = ~isLLR,
                       !.currentChart.yMin = IF isLLR THEN Num(-3) ELSE Undefined,
                       !.currentChart.yMax = IF isLLR THEN Num(3) ELSE Undefined,
                       !.currentChart.beginAtZero = ~isLLR]

\* testHistory.map(d => ({ x: d.time * 1000, y: d.score }))
scoreData(testHistory) ==
    [i \in 1..Len(testHistory) |->
        [x |-> testHistory[i].time * 1000, y |-> Property(testHistory[i], "score")]]

\* A series whose times stay in seconds.
llrDataInSeconds(testHistory) ==
    [i \in 1..Len(testHistory) |->
        [x |-> testHistory[i].time,
         y |-> IF testHistory[i].llr /= Null THEN testHistory[i].llr ELSE NaN]]

\* testHistory.map(d => ({ x: d.time * 1000, y: d.llr !== null ? d.llr : NaN }))
llrData(testHistory) ==
    [i \in 1..Len(testHistory) |->
        [x |-> testHistory[i].time * 1000,
         y |-> IF testHistory[i].llr /= Null THEN testHistory[i].llr ELSE NaN]]

\* allTestsData.some(test => test.id === testId)
IsActive(allTests, testId) == \E i \in 1..Len(allTests) : allTests[i].id = testId

\* An updateChartData that fills the score series only.
updateChartDataScoreOnly(p) ==
    IF p.currentChart = Null \/ p.currentTrackingTestId = Null THEN p
    ELSE LET key == p.currentTrackingTestId.s
             testHistory == IF key \in DOMAIN p.historicalData
                            THEN p.historicalData[key] ELSE <<>>
         IN  IF Len(testHistory) = 0
             THEN [p EXCEPT !.currentChart.scoreData = <<>>,
                            !.currentChart.llrData = <<>>]
             ELSE [p EXCEPT !.currentChart.scoreData = scoreData(testHistory),
                            !.testEndedMessage =
                                IF IsActive(p.allTestsData, p.currentTrackingTestId)
                                THEN "none" ELSE "block"]

\* updateChartData()
updateChartData(p) ==
    IF p.currentChart = Null \/ p.currentTrackingTestId = Null THEN p
    ELSE LET key == p.currentTrackingTestId.s
             testHistory == IF key \in DOMAIN p.historicalData
                            THEN p.historicalData[key] ELSE <<>>
         IN  IF Len(testHistory) = 0
             THEN [p EXCEPT !.currentChart.scoreData = <<>>,
                            !.currentChart.llrData = <<>>]
             ELSE [p EXCEPT !.currentChart.scoreData = scoreData(testHistory),
                            !.currentChart.llrData = llrData(testHistory),
                            !.testEndedMessage =
                                IF IsActive(p.allTestsData, p.currentTrackingTestId)
                                THEN "none" ELSE "block"]

\* initializeChart(testId, branchName)
initializeChart(p, testId, branchName) ==
    LET created ==
            [p EXCEPT !.currentTrackingTestId = testId,
                      !.currentTrackingBranchName = branchName,
                      !.testEndedMessage =
                          IF IsActive(p.allTestsData, testId) THEN "none" ELSE "block",
                      !.currentChart = NewChart(p.currentVisibleMetric)]
    IN  updateChartData(toggleChartMetric(created, created.currentVisibleMetric))

\* A click that keeps the metric that was visible.
handleBranchClickKeepsMetric(p, testId, branchName) ==
    IF testId = p.currentTrackingTestId THEN p
    ELSE initializeChart(p, testId, branchName)

\* handleBranchClick(event) on the branch link of a row.
handleBranchClick(p, testId, branchName) ==
    IF testId = p.currentTrackingTestId THEN p
    ELSE initializeChart([p EXCEPT !.currentVisibleMetric = "llr"], testId, branchName)

\* The callback of setInterval without its test of historicalData.
timerCallbackUnguarded(p) == displayLastUpdateTime(p)

\* The callback initializeApp gives to setInterval.
timerCallback(p) ==
    IF DOMAIN p.historicalData /= {} THEN displayLastUpdateTime(p) ELSE p

\* loadDataFromFiles(): what it leaves when the two fetches end as latest and
\* history say and deliver tests and store.
loadDataFromFiles(p, latest, history, tests, store) ==
    IF latest /= "ok" \/ history = "failed"
    THEN [p EXCEPT !.testsTableBody = TableBody("error", <<>>, FALSE),
                   !.allTestsData = <<>>,
                   !.historicalData = EmptyStore,
                   !.lastUpdateTime = StatusLine("error", 0, 0),
                   !.loadFailed = TRUE,
                   !.fetches = @ + 2]
    ELSE displayLastUpdateTime(
             [p EXCEPT !.allTestsData = tests,
                       !.historicalData = IF history = "ok" THEN store ELSE EmptyStore,
                       !.fetches = @ + 2])

\* ------------------------------------------------------------------- state

VARIABLES
    pc,                    \* where main is: load, fetch, process, saveLatest,
                           \* saveHistory, done (exit 0), exit1 (exit code 1)
    cycle,                 \* number of the running cycle
    now,                   \* Date.now() / 1000, floored
    historyFile,           \* historical_data.json
    latestFile,            \* latest_data.json
    currentHistory,        \* main's currentHistory / updatedHistory object
    rawData,               \* main's rawData
    latestProcessedTests,  \* main's latestProcessedTests
    historyChanged,        \* main's historyChanged
    error,                 \* what made main reject: none, load, fetch
    givenHistory,          \* the store as updateHistoricalData received it
    written,               \* files written so far in the running cycle
    cycleStart,            \* the files and the clock when the cycle started
    previousTests,         \* the list of the cycle before, when it completed
    repo,                  \* the branch head the workflow checks out and pushes to
    runs,                  \* the workflow runs: step reached, checkout, workspace
    page                   \* the browser page: its globals and what it displays

vars == <<pc, cycle, now, historyFile, latestFile, currentHistory, rawData,
          latestProcessedTests, historyChanged, error, givenHistory, written,
          cycleStart, previousTests, repo, runs, page>>

mainVars == <<pc, cycle, historyFile, latestFile, currentHistory, rawData,
              latestProcessedTests, historyChanged, error, givenHistory,
              written, cycleStart, previousTests, page>>

scriptVars == <<pc, cycle, now, historyFile, latestFile, currentHistory, rawData,
                latestProcessedTests, historyChanged, error, givenHistory,
                written, cycleStart, previousTests, repo, runs>>

RunIds == 1..MaxRuns

\* A run that has not been triggered.
IdleRun ==
    [pc |-> "idle", base |-> 0, baseHistory |-> MissingFile,
     baseLatest |-> MissingFile, history |-> MissingFile, latest |-> MissingFile]

InitWorkflow ==
    /\ repo = [version |-> 0, history |-> MissingFile, latest |-> MissingFile]
    /\ runs = [r \in RunIds |-> IdleRun]

InitPage == page = InitialPage

\* ------------------------------------------------------------------- main

InitMain(file, raw, at) ==
    /\ pc = at
    /\ cycle = 1
    /\ now = MAX_HISTORY_POINTS + 1
    /\ historyFile = file
    /\ latestFile = MissingFile
    /\ currentHistory = EmptyStore
    /\ rawData = raw
    /\ latestProcessedTests = <<>>
    /\ historyChanged = FALSE
    /\ error = "none"
    /\ givenHistory = EmptyStore
    /\ written = {}
    /\ cycleStart = [history |-> file, latest |-> MissingFile, now |-> MAX_HISTORY_POINTS + 1]
    /\ previousTests = <<>>

Init ==
    /\ \E file \in InitialHistoryFiles : InitMain(file, <<>>, "load")
    /\ InitWorkflow
    /\ InitPage

\* const currentHistory = await loadJson(HISTORY_DATA_PATH, {})
LoadHistory ==
    /\ pc = "load"
    /\ LET r == loadJson(historyFile, EmptyStore)
       IN  IF r.threw
           THEN pc' = "exit1" /\ error' = "load" /\ UNCHANGED currentHistory
           ELSE pc' = "fetch" /\ currentHistory' = r.value /\ UNCHANGED error
    /\ UNCHANGED <<cycle, now, historyFile, latestFile, rawData,
                   latestProcessedTests, historyChanged, givenHistory, written,
                   cycleStart, previousTests, repo, runs, page>>

\* const rawData = await fetchFishtestData(): the response is ok.
FetchOk ==
    /\ pc = "fetch"
    /\ \E raw \in FetchedMappings : rawData' = raw
    /\ pc' = "process"
    /\ UNCHANGED <<cycle, now, historyFile, latestFile, currentHistory,
                   latestProcessedTests, historyChanged, error, givenHistory,
                   written, cycleStart, previousTests, repo, runs, page>>

\* A fetch failure that is logged and not thrown again: main goes on with no
\* raw data.
FetchFailsSwallowed ==
    /\ pc = "fetch"
    /\ pc' = "process"
    /\ error' = "fetch"
    /\ UNCHANGED <<cycle, now, historyFile, latestFile, currentHistory, rawData,
                   latestProcessedTests, historyChanged, givenHistory, written,
                   cycleStart, previousTests, repo, runs, page>>

\* fetchFishtestData throws (a network error or a response that is not ok):
\* the rejection reaches main().catch, which exits with code 1.
FetchFails ==
    /\ pc = "fetch"
    /\ pc' = "exit1"
    /\ error' = "fetch"
    /\ UNCHANGED <<cycle, now, historyFile, latestFile, currentHistory, rawData,
                   latestProcessedTests, historyChanged, givenHistory, written,
                   cycleStart, previousTests, repo, runs, page>>

\* processRawData(rawData), then updateHistoricalData(currentHistory, ...):
\* the clock may tick once while the forEach runs, after k summaries.
ProcessAndUpdate ==
    /\ pc = "process"
    /\ \E tests \in processRawData(rawData), k \in 0..Len(rawData) :
         LET times == [i \in 1..Len(tests) |-> IF i > k THEN now + 1 ELSE now]
             r == updateHistoricalData(currentHistory, tests, times)
         IN  /\ (k = 0 => tests = <<>>)
             /\ latestProcessedTests' = tests
             /\ givenHistory' = currentHistory
             /\ currentHistory' = r.history
             /\ historyChanged' = r.changed
             /\ now' = IF k < Len(tests) THEN now + 1 ELSE now
    /\ pc' = "saveLatest"
    /\ UNCHANGED <<cycle, historyFile, latestFile, rawData, error, written,
                   cycleStart, previousTests, repo, runs, page>>

\* await saveJson(LATEST_DATA_PATH, latestProcessedTests)
SaveLatest ==
    /\ pc = "saveLatest"
    /\ latestFile' = JsonFile(StringifyTests(latestProcessedTests))
    /\ written' = written \cup {"latest"}
    /\ pc' = "saveHistory"
    /\ UNCHANGED <<cycle, now, historyFile, currentHistory, rawData,
                   latestProcessedTests, historyChanged, error, givenHistory,
                   cycleStart, previousTests, repo, runs, page>>

\* if (historyChanged) await saveJson(HISTORY_DATA_PATH, updatedHistory)
SaveHistory ==
    /\ pc = "saveHistory"
    /\ IF historyChanged
       THEN /\ historyFile' = JsonFile(StringifyHistory(currentHistory))
            /\ written' = written \cup {"history"}
       ELSE UNCHANGED <<historyFile, written>>
    /\ pc' = "done"
    /\ UNCHANGED <<cycle, now, latestFile, currentHistory, rawData,
                   latestProcessedTests, historyChanged, error, givenHistory,
                   cycleStart, previousTests, repo, runs, page>>

\* The next scheduled run: a fresh process, at least a second later.
NextCycle ==
    /\ pc \in {"done", "exit1"}
    /\ cycle < MaxCycles
    /\ cycle' = cycle + 1
    /\ now' = now + 1
    /\ pc' = "load"
    /\ currentHistory' = EmptyStore
    /\ rawData' = <<>>
    /\ latestProcessedTests' = <<>>
    /\ historyChanged' = FALSE
    /\ error' = "none"
    /\ givenHistory' = EmptyStore
    /\ written' = {}
    /\ cycleStart' = [history |-> historyFile, latest |-> latestFile, now |-> now + 1]
    /\ previousTests' = IF pc = "done" THEN latestProcessedTests ELSE <<>>
    /\ UNCHANGED <<historyFile, latestFile, repo, runs, page>>

Next ==
    \/ LoadHistory
    \/ FetchOk
    \/ FetchFails
    \/ ProcessAndUpdate
    \/ SaveLatest
    \/ SaveHistory
    \/ NextCycle

Spec == Init /\ [][Next]_vars

\* ------------------------------------------------- processRawData on its own

InitProcess ==
    /\ \E raw \in ProcessMappings(MaxRaw) : InitMain(MissingFile, raw, "input")
    /\ InitWorkflow
    /\ InitPage

\* const latestProcessedTests = processRawData(rawData)
ProcessOnly ==
    /\ pc = "input"
    /\ latestProcessedTests' \in processRawData(rawData)
    /\ pc' = "output"
    /\ UNCHANGED <<cycle, now, historyFile, latestFile, currentHistory, rawData,
                   historyChanged, error, givenHistory, written, cycleStart,
                   previousTests, repo, runs, page>>

NextProcess == ProcessOnly

SpecProcess == InitProcess /\ [][NextProcess]_vars

\* ---------------------------------------------------------------- workflow

\* What `node ./.github/scripts/fetch_and_process.js` leaves in a workspace
\* that holds the history file hf, when the fetch delivers raw at time t: the
\* two files after main has run to its end.
ScriptResults(hf, raw, t) ==
    {LET r == updateHistoricalData(loadJson(hf, EmptyStore).value, tests,
                                   [i \in 1..Len(tests) |-> t])
     IN  [history |-> IF r.changed THEN JsonFile(StringifyHistory(r.history)) ELSE hf,
          latest |-> JsonFile(StringifyTests(tests))]
       : tests \in processRawData(raw)}

\* on: schedule / workflow_dispatch, then actions/checkout: a run starts
\* whenever it is triggered (the workflow sets no concurrency group) and
\* checks out the head of the branch.
Checkout(r) ==
    /\ runs[r].pc = "idle"
    /\ runs' = [runs EXCEPT ![r] =
                   [pc |-> "checkedOut", base |-> repo.version,
                    baseHistory |-> repo.history, baseLatest |-> repo.latest,
                    history |-> repo.history, latest |-> repo.latest]]
    /\ UNCHANGED <<mainVars, now, repo>>

\* The step "Fetch, process, and save data": main runs to its end in the
\* run's workspace.
RunScript(r) ==
    /\ runs[r].pc = "checkedOut"
    /\ \E raw \in FetchedMappings :
          \E res \in ScriptResults(runs[r].history, raw, now) :
             runs' = [runs EXCEPT ![r].pc = "scripted",
                                  ![r].history = res.history,
                                  ![r].latest = res.latest]
    /\ now' = now + 1
    /\ UNCHANGED <<mainVars, repo>>

\* The same step when the fetch fails: the script exits with code 1 and the
\* job stops before the commit step.
RunScriptFails(r) ==
    /\ runs[r].pc = "checkedOut"
    /\ runs' = [runs EXCEPT ![r].pc = "failed"]
    /\ UNCHANGED <<mainVars, now, repo>>

\* The step "Commit and push changes": nothing when the staged files equal
\* the checkout; otherwise a commit and a push, which the remote rejects when
\* the branch head is no longer the commit that was checked out.
CommitAndPush(r) ==
    /\ runs[r].pc = "scripted"
    /\ IF runs[r].history = runs[r].baseHistory /\ runs[r].latest = runs[r].baseLatest
       THEN /\ runs' = [runs EXCEPT ![r].pc = "finished"]
            /\ UNCHANGED repo
       ELSE IF repo.version = runs[r].base
       THEN /\ repo' = [version |-> repo.version + 1, history |-> runs[r].history,
                        latest |-> runs[r].latest]
            /\ runs' = [runs EXCEPT ![r].pc = "finished"]
       ELSE /\ runs' = [runs EXCEPT ![r].pc = "rejected"]
            /\ UNCHANGED repo
    /\ UNCHANGED <<mainVars, now>>

NextWorkflow ==
    \E r \in RunIds :
       \/ Checkout(r)
       \/ RunScript(r)
       \/ RunScriptFails(r)
       \/ CommitAndPush(r)

InitRuns ==
    /\ InitMain(MissingFile, <<>>, "load")
    /\ InitWorkflow
    /\ InitPage

SpecWorkflow == InitRuns /\ [][NextWorkflow]_vars

\* -------------------------------------------------------------------- page

\* initializeApp(): the two fetches end, loadDataFromFiles returns, the
\* table is rendered and, unless the rendering threw, the timer is set.
initializeApp ==
    /\ page.phase = "loading"
    /\ \E latest \in FetchOutcomes, history \in FetchOutcomes,
          tests \in LatestLists, store \in HistoryStores :
          LET loaded == loadDataFromFiles(page, latest, history, tests, store)
              r == filterAndRenderTable(loaded)
          IN  page' = [loaded EXCEPT !.testsTableBody = r.body,
                                     !.timer = ~r.threw,
                                     !.phase = "ready",
                                     !.event = "load"]
    /\ UNCHANGED scriptVars

\* The listener of the filter input's 'input' event: the user has changed
\* the text to q.
FilterInput(q) ==
    /\ q /= page.filterValue
    /\ LET typed == [page EXCEPT !.filterValue = q]
       IN  page' = [typed EXCEPT !.testsTableBody = filterAndRenderTable(typed).body,
                                 !.event = "filter"]
    /\ UNCHANGED scriptVars

\* handleUsernameFilterClick(event) on the username link of row i.
UsernameClick(i) ==
    /\ i \in 1..Len(page.testsTableBody.rows)
    /\ LET usernameToFilter == page.testsTableBody.rows[i].username.s
           typed == [page EXCEPT !.filterValue = usernameToFilter]
       IN  /\ usernameToFilter /= <<>>
           /\ page' = [typed EXCEPT !.testsTableBody = filterAndRenderTable(typed).body,
                                    !.event = "username"]
    /\ UNCHANGED scriptVars

\* The click listener of the table on the branch link of row i.
BranchClick(i) ==
    /\ i \in 1..Len(page.testsTableBody.rows)
    /\ LET test == page.testsTableBody.rows[i]
       IN  page' = [handleBranchClick(page, test.id, test.branch)
                       EXCEPT !.event = "select"]
    /\ UNCHANGED scriptVars

\* The click listeners of the two toggle buttons.
ToggleMetric(metricToShow) ==
    /\ page' = [toggleChartMetric(page, metricToShow) EXCEPT !.event = "toggle"]
    /\ UNCHANGED scriptVars

\* The timer fires, a minute later.
TimerTick ==
    /\ page.timer
    /\ page.ticks < MaxTicks
    /\ page' = [timerCallback([page EXCEPT !.ticks = @ + 1]) EXCEPT !.event = "tick"]
    /\ UNCHANGED scriptVars

\* updateChartData() run again on the data the page holds.
DataRefresh ==
    /\ page.phase = "ready"
    /\ page' = [updateChartData(page) EXCEPT !.event = "refresh"]
    /\ UNCHANGED scriptVars

NextPage ==
    \/ initializeApp
    \/ \E q \in FilterTexts : FilterInput(q)
    \/ \E i \in DOMAIN page.testsTableBody.rows : UsernameClick(i)
    \/ \E i \in DOMAIN page.testsTableBody.rows : BranchClick(i)
    \/ \E m \in Metrics : ToggleMetric(m)
    \/ TimerTick
    \/ DataRefresh

InitBrowser ==
    /\ InitMain(MissingFile, <<>>, "load")
    /\ InitWorkflow
    /\ InitPage

SpecPage == InitBrowser /\ [][NextPage]_vars

\* ----------------------------------------------------------------- claims

\* x >= y on llr values that are not null: false when either is NaN.
LlrGeq(x, y) == x.t = "number" /\ y.t = "number" /\ x.n >= y.n

\* C6: the list returned by processRawData is sorted: for any positions i < j,
\* summary[i].llr >= summary[j].llr, or summary[i].llr is non-null while
\* summary[j].llr is null, or both are null.
C6_SortedByLlr ==
    pc = "output" =>
        \A i, j \in 1..Len(latestProcessedTests) :
            i < j =>
                LET x == latestProcessedTests[i].llr
                    y == latestProcessedTests[j].llr
                IN  \/ (x /= Null /\ y /= Null /\ LlrGeq(x, y))
                    \/ (x /= Null /\ y = Null)
                    \/ (x = Null /\ y = Null)

\* v is missing or does not parse to a number.
NotNumeric(v) == parseFloat(v) = NaN

\* Every numeric field of the record is missing or non-numeric.
NumericFieldsMalformed(test) ==
    /\ NotNumeric(ResultsField(test, test.wins))
    /\ NotNumeric(ResultsField(test, test.losses))
    /\ NotNumeric(ResultsField(test, test.draws))
    /\ NotNumeric(test.workers)
    /\ NotNumeric(SprtField(test, test.llr))
    /\ NotNumeric(SprtField(test, test.elo0))

\* C7: for every raw record whose numeric fields are missing or non-numeric,
\* the output holds a summary of it with wins, losses, draws and workers 0,
\* wml 0, and llr and sprtElo0 null; the other records are output as well.
C7_MalformedDefaults ==
    pc = "output" =>
        /\ Len(latestProcessedTests) = Len(rawData)
        /\ \A i \in 1..Len(rawData) :
              NumericFieldsMalformed(rawData[i]) =>
                 \E j \in 1..Len(latestProcessedTests) :
                    LET t == latestProcessedTests[j]
                    IN  /\ t.id = rawData[i]._id
                        /\ t.wins = 0 /\ t.losses = 0 /\ t.draws = 0
                        /\ t.workers = 0 /\ t.wml = 0
                        /\ t.llr = Null /\ t.sprtElo0 = Null

\* updateHistoricalData has returned in the running cycle.
Updated == pc \in {"saveLatest", "saveHistory", "done"}

\* The summaries of the running cycle that carry an id.
IdentifiedTests ==
    {latestProcessedTests[i] : i \in {j \in 1..Len(latestProcessedTests) :
                                        latestProcessedTests[j].id /= UndefinedId}}

\* The sequence of id in a store, empty when the store has no entry for it.
SequenceOf(store, id) == IF id \in DOMAIN store THEN store[id] ELSE <<>>

\* after is before with its first point removed and one point added last.
ShiftedAppend(before, after) ==
    /\ Len(after) = Len(before)
    /\ \A i \in 1..(Len(before) - 1) : after[i] = before[i + 1]

\* after is before with one point added last.
PlainAppend(before, after) ==
    /\ Len(after) = Len(before) + 1
    /\ \A i \in 1..Len(before) : after[i] = before[i]

\* C1: no per-test sequence, in memory or in the history file, has more than
\* 864 points; when a point is appended to a sequence that holds 864 points,
\* exactly the first point is removed, the others keep their order and the
\* new point is last.
C1_HistoryCapped ==
    /\ \A k \in DOMAIN currentHistory : Len(currentHistory[k]) <= 864
    /\ historyFile.state = "json" =>
          \A k \in DOMAIN historyFile.data : Len(historyFile.data[k]) <= 864
    /\ Updated =>
          \A t \in IdentifiedTests :
             LET before == SequenceOf(givenHistory, t.id)
                 after == SequenceOf(currentHistory, t.id)
             IN  (Len(before) = 864 /\ after /= before) =>
                    /\ ShiftedAppend(before, after)
                    /\ after[864].wml = t.wml
                    /\ after[864].llr = t.llr

\* C1 witness: a cycle appended to a sequence that held 864 points.
C1_Witness ==
    /\ Updated
    /\ \E t \in IdentifiedTests :
          /\ Len(SequenceOf(givenHistory, t.id)) = 864
          /\ SequenceOf(currentHistory, t.id) /= SequenceOf(givenHistory, t.id)

\* C2: when the cycle before completed and produced the same (wml, llr) for a
\* test id as the running cycle, the running cycle leaves that test's
\* sequence as it loaded it.
C2_NoPointWhenUnchanged ==
    Updated =>
        \A t \in IdentifiedTests :
           \A i \in 1..Len(previousTests) :
              (previousTests[i].id = t.id /\ previousTests[i].wml = t.wml
                 /\ previousTests[i].llr = t.llr) =>
                    /\ t.id \in DOMAIN givenHistory
                    /\ t.id \in DOMAIN currentHistory
                    /\ currentHistory[t.id] = givenHistory[t.id]

\* C3: after updateHistoricalData, every key of the given store that is not
\* the id of a summary is gone from the store, and historyChanged is true.
C3_EndedTestsDeleted ==
    Updated =>
        \A k \in DOMAIN givenHistory :
           k \notin {latestProcessedTests[i].id : i \in 1..Len(latestProcessedTests)} =>
              /\ k \notin DOMAIN currentHistory
              /\ historyChanged

\* C3 witness: the given store had an entry for a test that is not in the list.
C3_Witness ==
    /\ Updated
    /\ \E k \in DOMAIN givenHistory :
          k \notin {latestProcessedTests[i].id : i \in 1..Len(latestProcessedTests)}

\* C4: historyChanged is true exactly when the returned store differs from the
\* store updateHistoricalData was given.
C4_ChangedIffDiffers ==
    Updated => (historyChanged <=> currentHistory /= givenHistory)

\* C5: when the fetch fails, main exits with code 1 and neither file is
\* written or modified in that cycle.
C5_FetchFailureAborts ==
    error = "fetch" =>
        /\ pc = "exit1"
        /\ written = {}
        /\ historyFile = cycleStart.history
        /\ latestFile = cycleStart.latest

\* C5 witness: a fetch failed in a cycle that started with both files present.
C5_Witness ==
    /\ error = "fetch"
    /\ cycleStart.history.state = "json"
    /\ cycleStart.latest.state = "json"

\* C8: a missing history file is loaded as the empty store and the cycle goes
\* on to the fetch; any other read failure ends the cycle with exit code 1
\* and no file written.
C8_MissingHistoryIsEmpty ==
    /\ (cycleStart.history.state = "missing" /\ pc /= "load") =>
          /\ error /= "load"
          /\ pc = "fetch" => currentHistory = EmptyStore
          /\ Updated => givenHistory = EmptyStore
    /\ (cycleStart.history.state \in {"corrupt", "unreadable"} /\ pc /= "load") =>
          /\ pc = "exit1"
          /\ error = "load"
          /\ written = {}
          /\ historyFile = cycleStart.history
          /\ latestFile = cycleStart.latest

\* C8 witness: a cycle that found no history file ran to its end and wrote one.
C8_Witness ==
    /\ cycleStart.history.state = "missing"
    /\ pc = "done"
    /\ "history" \in written

\* The summary's (wml, llr) differ from those of the last point of seq.
DiffersFromLast(seq, t) ==
    seq[Len(seq)].wml /= t.wml \/ seq[Len(seq)].llr /= t.llr

\* C9: in one cycle the sequence of every test in the list stays as it was or
\* gains one point last (losing its first point at the cap), with the
\* summary's wml and llr and a time read in the cycle; it gains the point when
\* the id is new to the store or (wml, llr) differ from the last stored point.
C9_AtMostOnePointPerTest ==
    Updated =>
        \A t \in IdentifiedTests :
           LET before == SequenceOf(givenHistory, t.id)
               after == SequenceOf(currentHistory, t.id)
               appended ==
                  /\ after /= <<>>
                  /\ IF Len(before) = 864 THEN ShiftedAppend(before, after)
                                          ELSE PlainAppend(before, after)
                  /\ after[Len(after)].wml = t.wml
                  /\ after[Len(after)].llr = t.llr
                  /\ after[Len(after)].time \in cycleStart.now..now
           IN  /\ t.id \in DOMAIN currentHistory
               /\ (after = before /\ t.id \in DOMAIN givenHistory) \/ appended
               /\ (t.id \notin DOMAIN givenHistory \/ before = <<>>
                     \/ DiffersFromLast(before, t)) => appended

\* C9 witness: one test of the list kept its sequence, another gained a point.
C9_Witness ==
    /\ Updated
    /\ \E t, u \in IdentifiedTests :
          /\ t.id \in DOMAIN givenHistory
          /\ currentHistory[t.id] = givenHistory[t.id]
          /\ u.id \in DOMAIN givenHistory
          /\ Len(currentHistory[u.id]) = Len(givenHistory[u.id]) + 1

\* The run is between its read of the files (checkout) and its final write
\* (push).
InFlight(r) == runs[r].pc \in {"checkedOut", "scripted"}

\* C10: cycles never overlap: no two runs are at once between their read of
\* the files and their final write, and no run's update is lost to another
\* run that worked from the same read.
C10_CyclesNeverOverlap ==
    /\ \A r1, r2 \in RunIds : (InFlight(r1) /\ InFlight(r2)) => r1 = r2
    /\ \A r \in RunIds : runs[r].pc /= "rejected"

\* C11: when a fetch failed during the page load, the table body shows the
\* load-error row once initializeApp has finished, and the 'no data yet'
\* placeholder is shown only when the unfiltered list is empty and no load
\* error is to be displayed.
C11_LoadErrorRowShown ==
    /\ (page.event = "load" /\ page.loadFailed) => page.testsTableBody.kind = "error"
    /\ page.testsTableBody.kind = "noData" =>
          (page.allTestsData = <<>> /\ ~page.loadFailed)

\* C12: after a load failure the summary list and the store are empty and
\* the status line shows the error indicator; from then on no timer tick and
\* no user event fetches again (the two fetches of the load stay the only
\* ones) or replaces the indicator.
C12_NoRetryAfterLoadFailure ==
    page.loadFailed =>
       /\ page.allTestsData = <<>>
       /\ page.historicalData = EmptyStore
       /\ page.lastUpdateTime.kind = "error"
       /\ page.fetches = 2

\* The timer has fired after a failed load and after the user had typed a
\* filter.
C12_Witness == page.loadFailed /\ page.event = "tick" /\ page.filterValue /= <<>>

\* C13: a click on the branch link of the tracked test leaves the tracked id
\* and branch, the visible metric, the chart and the ended banner unchanged;
\* a click on another test makes that test's id and branch the tracked ones
\* and llr the visible metric, and shows the ended banner if and only if the
\* id is absent from the latest summary list.
C13_SelectTest ==
    [][\A i \in DOMAIN page.testsTableBody.rows :
          BranchClick(i) =>
             LET test == page.testsTableBody.rows[i]
             IN  IF test.id = page.currentTrackingTestId
                 THEN /\ page'.currentTrackingTestId = page.currentTrackingTestId
                      /\ page'.currentTrackingBranchName = page.currentTrackingBranchName
                      /\ page'.currentVisibleMetric = page.currentVisibleMetric
                      /\ page'.currentChart = page.currentChart
                      /\ page'.testEndedMessage = page.testEndedMessage
                 ELSE /\ page'.currentTrackingTestId = test.id
                      /\ page'.currentTrackingBranchName = test.branch
                      /\ page'.currentVisibleMetric = "llr"
                      /\ (page'.testEndedMessage = "block") =
                            (\A j \in DOMAIN page.allTestsData :
                                page.allTestsData[j].id /= test.id)]_vars

\* The second test of the list has been selected.
C13_Witness ==
    /\ page.event = "select"
    /\ page.currentTrackingTestId = TestB.id
    /\ page.currentTrackingBranchName = TestB.branch
    /\ page.currentChart /= Null

\* C14: whenever a chart exists, exactly one of the two series is visible,
\* the one the visible metric names; the value axis is fixed to [-3, 3] if
\* and only if the visible metric is llr, and for score its min and max are
\* unset and it begins at zero.
C14_OneSeriesVisible ==
    page.currentChart /= Null =>
       LET chart == page.currentChart
           isLLR == page.currentVisibleMetric = "llr"
       IN  /\ chart.scoreHidden /= chart.llrHidden
           /\ chart.llrHidden = ~isLLR
           /\ isLLR = (chart.yMin = Num(-3) /\ chart.yMax = Num(3))
           /\ isLLR => ~chart.beginAtZero
           /\ ~isLLR => (chart.yMin = Undefined /\ chart.yMax = Undefined
                         /\ chart.beginAtZero)

\* The user has toggled the chart of a selected test to score.
C14_Witness ==
    /\ page.currentChart /= Null
    /\ page.event = "toggle"
    /\ page.currentVisibleMetric = "score"
    /\ ~page.currentChart.scoreHidden

\* The history the store holds for the tracked id: none when it has no entry.
TrackedHistory ==
    IF page.currentTrackingTestId.s \in DOMAIN page.historicalData
    THEN page.historicalData[page.currentTrackingTestId.s] ELSE <<>>

\* C15: after updateChartData has run with a test tracked, both series are
\* the series recomputed from the store's entry of the tracked id (empty
\* when the id has no history) and the ended banner is shown if and only if
\* the tracked id is absent from the summary list; with nothing tracked the
\* run changes nothing.
C15_DataRefresh ==
    /\ []((page.event = "refresh" /\ page.currentTrackingTestId /= Null) =>
             /\ page.currentChart /= Null
             /\ page.currentChart.scoreData = scoreData(TrackedHistory)
             /\ page.currentChart.llrData = llrData(TrackedHistory)
             /\ (page.testEndedMessage = "block") =
                   ~IsActive(page.allTestsData, page.currentTrackingTestId))
    /\ [][(DataRefresh /\ page.currentTrackingTestId = Null) =>
             page' = [page EXCEPT !.event = "refresh"]]_vars

\* updateChartData has run for a tracked test that has no entry in a store
\* that holds another test's history.
C15_Witness ==
    /\ page.event = "refresh"
    /\ page.currentTrackingTestId = TestB.id
    /\ TestB.id.s \notin DOMAIN page.historicalData
    /\ page.historicalData /= EmptyStore

\* Whether the username, the branch or the id of a summary contains the
\* query, compared without regard to case.
ContainsQuery(test, query) ==
    \/ Includes(ToLowerCase(test.username.s), ToLowerCase(query))
    \/ Includes(ToLowerCase(test.branch.s), ToLowerCase(query))
    \/ Includes(ToLowerCase(test.id.s), ToLowerCase(query))

\* C16: after filterAndRenderTable has run, the rendered rows are exactly
\* the summaries of the full list, in their order, whose username, branch or
\* id contains the query as a substring compared case-insensitively; with an
\* empty query they are the full list.
C16_FilterRendersMatches ==
    page.event \in {"load", "filter", "username"} =>
       LET keep(test) == ContainsQuery(test, page.filterValue)
       IN  page.testsTableBody.rows =
              IF page.filterValue = <<>> THEN page.allTestsData
              ELSE SelectSeq(page.allTestsData, keep)

\* C17: for a tracked test with history h, each of the two series has one
\* pair per point of h, in the order of h, whose time is the point's time in
\* seconds times 1000; the value of a pair of the llr series is the point's
\* llr, or NaN when the point's llr is null.
C17_SeriesConstruction ==
    (page.currentChart /= Null /\ page.currentTrackingTestId /= Null) =>
       LET h == TrackedHistory
           score == page.currentChart.scoreData
           llr == page.currentChart.llrData
       IN  /\ Len(score) = Len(h)
           /\ Len(llr) = Len(h)
           /\ \A i \in 1..Len(h) :
                 /\ score[i].x = 1000 * h[i].time
                 /\ llr[i].x = 1000 * h[i].time
                 /\ h[i].llr = Null => llr[i].y = NaN
                 /\ h[i].llr /= Null => llr[i].y = h[i].llr

\* A test is tracked whose history has a point without llr followed by a
\* point with one, and the series hold both.
C17_Witness ==
    /\ page.currentChart /= Null
    /\ page.currentTrackingTestId = TestA.id
    /\ Len(TrackedHistory) = 2
    /\ TrackedHistory[1].llr = Null
    /\ TrackedHistory[2].llr = Num(1)
    /\ Len(page.currentChart.llrData) = 2

\* C18: for every point of the tracked test's history, as the script stores
\* points (time, wml, llr), the pair of the score series at its position
\* carries a defined numeric value; a non-empty history gives a non-empty
\* score series.
C18_ScoreSeriesDefined ==
    (page.currentChart /= Null /\ page.currentTrackingTestId /= Null) =>
       LET score == page.currentChart.scoreData
       IN  /\ Len(score) = Len(TrackedHistory)
           /\ \A i \in 1..Len(score) : score[i].y.t = "number"

\* C19: a store that updateHistoricalData returned and saveJson wrote is
\* read back by loadJson as an equal store: the same ids, the same
\* sequences, the same time, wml and llr in every point.
C19_HistoryRoundTrip ==
    (pc = "done" /\ "history" \in written) =>
       /\ ~loadJson(historyFile, EmptyStore).threw
       /\ loadJson(historyFile, EmptyStore).value = currentHistory

\* C20: after updateHistoricalData, the keys of the store are the ids of
\* the latest summaries, every stored sequence is non-empty, and the last
\* point of each sequence has the wml and the llr of the latest summary with
\* that id.
C20_StoreMirrorsLatest ==
    Updated =>
       /\ DOMAIN currentHistory = {t.id : t \in IdentifiedTests}
       /\ \A t \in IdentifiedTests :
             /\ t.id \in DOMAIN currentHistory
             /\ Len(currentHistory[t.id]) > 0
             /\ currentHistory[t.id][Len(currentHistory[t.id])].wml = t.wml
             /\ currentHistory[t.id][Len(currentHistory[t.id])].llr = t.llr

\* C20 witness: the cycle has kept a test, added a test and dropped a test
\* of the given store.
C20_Witness ==
    /\ Updated
    /\ \E k \in DOMAIN givenHistory : k \notin DOMAIN currentHistory
    /\ \E k \in DOMAIN givenHistory : k \in DOMAIN currentHistory
    /\ \E k \in DOMAIN currentHistory : k \notin DOMAIN givenHistory

\* The ids of the tests a summary list describes.
SnapshotIds(tests) == {tests[i].id : i \in 1..Len(tests)} \ {UndefinedId}

\* C21: at the end of every cycle that completes, the snapshot file has been
\* written in the cycle and holds the list computed in it, the history file
\* holds the store updateHistoricalData returned, whether or not the write
\* of the history was skipped, and the two files describe the same test ids.
C21_FilesMirrorMemory ==
    pc = "done" =>
       /\ "latest" \in written
       /\ latestFile.state = "json"
       /\ latestFile.data = latestProcessedTests
       /\ loadJson(historyFile, EmptyStore).value = currentHistory
       /\ DOMAIN loadJson(historyFile, EmptyStore).value = SnapshotIds(latestFile.data)

\* Whether the times of a sequence of points never decrease from one point
\* to the next.
OldestFirst(points) ==
    \A i \in 1..(Len(points) - 1) : points[i].time <= points[i + 1].time

\* C22: with a clock that never goes backwards, every sequence of the store
\* is ordered oldest first, in memory and in the history file, after appends,
\* after removals of the first point at the cap, and after an id was deleted
\* and created again.
C22_OldestFirst ==
    /\ \A k \in DOMAIN currentHistory : OldestFirst(currentHistory[k])
    /\ historyFile.state = "json" =>
          \A k \in DOMAIN historyFile.data : OldestFirst(historyFile.data[k])

\* C22 witness: a sequence at the cap has lost its first point to an append
\* made in the running cycle.
C22_Witness ==
    /\ Updated
    /\ \E k \in DOMAIN currentHistory \cap DOMAIN givenHistory :
          /\ Len(givenHistory[k]) = MAX_HISTORY_POINTS
          /\ Len(currentHistory[k]) = MAX_HISTORY_POINTS
          /\ currentHistory[k][1] = givenHistory[k][2]
          /\ currentHistory[k][MAX_HISTORY_POINTS].time >= cycleStart.now

====
